---- MODULE Spec2Model ----
(***************************************************************************)
(* Model of pretty_printers_tests/src/main.rs: the batch runner that lists *)
(* a directory of test sources, runs the LLDB test runner on each of them, *)
(* prints one status line per test and returns the aggregate status.       *)
(*                                                                         *)
(* The environment (the Settings file, the directory, the backend) is an   *)
(* input.  The value found under a settings key is chosen when the key is  *)
(* looked up; every key is looked up at most once, so this yields the same *)
(* behaviours as fixing the file's content when it is merged.  Directory   *)
(* entries are produced one at a time, as the ReadDir iterator does.       *)
(***************************************************************************)
EXTENDS Naturals, Sequences, FiniteSets

\* Largest number of directory entries the listing yields.
MaxFiles == 3

\* A file name that is not valid UTF-8 (to_str() returns None for it).
BadName == "\\xff.rs"

\* File names a directory may hold; names within one directory are distinct.
Names == {"a.rs", "b.rs", "c.rs", BadName}

\* Diagnostics the backend may return in Err(e).
Diags == {"type mismatch", "lldb not found"}

\* What settings.get::<T>(key) finds: a value of type T, nothing, or a
\* value that does not convert to T.  "unread" is a key not looked up yet.
KeyStates == {"ok", "absent", "badtype"}

\* The fields of LLDBConfig, in the order the struct expression reads them.
ConfigOrder ==
  << "pretty_printers_path", "lldb_batchmode", "lldb_python",
     "lldb_lookup", "print_lldb_stdout", "lldb_native_rust" >>

Keys == {"test_dir"} \cup {ConfigOrder[j] : j \in 1..Len(ConfigOrder)}

VARIABLES
  pc,          \* position in main
  settings,    \* key -> what its lookup found ("unread" before the lookup)
  dir,         \* "unlisted", "open" (read_dir returned Ok) or "err"
  listing,     \* the entries the directory iterator yielded, in its order
  src_paths,   \* the collected Vec of paths (their final segment)
  field,       \* index in ConfigOrder of the next field to read
  config,      \* <<>> until LLDBConfig is constructed, then <<record>>
  i,           \* number of elements the for loop has taken from src_paths
  result,      \* <<>> or <<r>>: the result of the current test_runner.run()
  path_string, \* <<>> or <<name>>: the derived file name of the current test
  status,      \* the aggregate: "Ok" or "Err"
  out,         \* the lines printed to stdout
  calls,       \* the tests test_runner.run() was started for, in order
  results,     \* the results test_runner.run() returned, in order
  exit,        \* "running", "success", "failure" or "panic"
  panicSite    \* where the run panicked, "none" if it did not

vars ==
  << pc, settings, dir, listing, src_paths, field, config, i, result,
     path_string, status, out, calls, results, exit, panicSite >>

Passed == [tag |-> "Ok", e |-> ""]

Failed(d) == [tag |-> "Err", e |-> d]

Outcomes == {Passed} \cup {Failed(d) : d \in Diags}

\* path.file_name().unwrap().to_str().unwrap(): entries of read_dir never end
\* in "..", so file_name() is Some; to_str() is None for a non-UTF-8 name.
Utf8(name) == name # BadName

Init ==
  /\ pc = "start"
  /\ settings = [k \in Keys |-> "unread"]
  /\ dir = "unlisted"
  /\ listing = << >>
  /\ src_paths = << >>
  /\ field = 1
  /\ config = << >>
  /\ i = 0
  /\ result = << >>
  /\ path_string = << >>
  /\ status = "Ok"
  /\ out = << >>
  /\ calls = << >>
  /\ results = << >>
  /\ exit = "running"
  /\ panicSite = "none"

\* A panic: unwrap() on None/Err, or panic!().  The process ends unsuccessfully.
Panic(site) ==
  /\ pc' = "panicked"
  /\ exit' = "panic"
  /\ panicSite' = site

\* settings.merge(config::File::with_name("Settings")).unwrap()
Merge ==
  /\ pc = "start"
  /\ \E fileOk \in BOOLEAN :
       IF fileOk
         THEN pc' = "test_dir" /\ UNCHANGED << exit, panicSite >>
         ELSE Panic("merge")
  /\ UNCHANGED << settings, dir, listing, src_paths, field, config, i, result,
                  path_string, status, out, calls, results >>

\* Result::unwrap() panics on a failed lookup; lldb_python alone is read with
\* unwrap_or_default(), which turns every failed lookup into String::default().
FatalExceptTestDir(key, r) ==
  r # "ok" /\ key # "lldb_python" /\ key # "test_dir"

FatalOnBadPython(key, r) ==
  r # "ok" /\ (key # "lldb_python" \/ r = "badtype")

Fatal(key, r) ==
  r # "ok" /\ key # "lldb_python"

\* The value a field gets from a lookup that did not panic.
Value(r) == IF r = "ok" THEN "set" ELSE ""

\* let path = settings.get::<String>("test_dir").unwrap();
GetTestDir ==
  /\ pc = "test_dir"
  /\ \E r \in KeyStates :
       /\ settings' = [settings EXCEPT !["test_dir"] = r]
       /\ IF Fatal("test_dir", r)
            THEN Panic("test_dir")
            ELSE pc' = "read_dir" /\ UNCHANGED << exit, panicSite >>
  /\ UNCHANGED << dir, listing, src_paths, field, config, i, result,
                  path_string, status, out, calls, results >>

\* read_dir(src_dir).unwrap_or_else(|_| panic!("Tests not found!"))
ReadDir ==
  /\ pc = "read_dir"
  /\ \E ok \in BOOLEAN :
       IF ok
         THEN /\ dir' = "open"
              /\ pc' = "collect"
              /\ UNCHANGED << exit, panicSite >>
         ELSE /\ dir' = "err"
              /\ Panic("read_dir")
  /\ UNCHANGED << settings, listing, src_paths, field, config, i, result,
                  path_string, status, out, calls, results >>

ListedNames == {listing[j].name : j \in 1..Len(listing)}

\* collect() keeps the paths in the order the iterator yields them.
CollectFront(paths, p) == << p >> \o paths

Collect(paths, p) == Append(paths, p)

\* A variant that drops the entries that are errors instead of unwrapping them.
ReadEntrySkipErr ==
  /\ pc = "collect"
  /\ Len(listing) < MaxFiles
  /\ \/ \E n \in Names \ ListedNames :
          /\ listing' = Append(listing, [ok |-> TRUE, name |-> n])
          /\ src_paths' = Collect(src_paths, n)
     \/ /\ listing' = Append(listing, [ok |-> FALSE, name |-> ""])
        /\ UNCHANGED src_paths
  /\ UNCHANGED << pc, exit, panicSite, settings, dir, field, config, i, result,
                  path_string, status, out, calls, results >>

\* .map(|file| file.unwrap().path().as_os_str().to_owned()): one step of the
\* iterator, which yields Ok(entry) or Err(io error).
ReadEntry ==
  /\ pc = "collect"
  /\ Len(listing) < MaxFiles
  /\ \/ \E n \in Names \ ListedNames :
          /\ listing' = Append(listing, [ok |-> TRUE, name |-> n])
          /\ src_paths' = Collect(src_paths, n)
          /\ UNCHANGED << pc, exit, panicSite >>
     \/ /\ listing' = Append(listing, [ok |-> FALSE, name |-> ""])
        /\ UNCHANGED src_paths
        /\ Panic("entry")
  /\ UNCHANGED << settings, dir, field, config, i, result,
                  path_string, status, out, calls, results >>

\* The iterator is exhausted: .collect() returns the Vec.
EndOfListing ==
  /\ pc = "collect"
  /\ pc' = "config"
  /\ UNCHANGED << settings, dir, listing, src_paths, field, config, i, result,
                  path_string, status, out, calls, results, exit, panicSite >>

\* The LLDBConfig the lookups recorded in s make.
MakeConfig(s) ==
  [ pretty_printers_path |-> Value(s["pretty_printers_path"]),
    lldb_batchmode       |-> Value(s["lldb_batchmode"]),
    lldb_python          |-> Value(s["lldb_python"]),
    lldb_lookup          |-> Value(s["lldb_lookup"]),
    with_output          |-> Value(s["print_lldb_stdout"]),
    lldb_native_rust     |-> Value(s["lldb_native_rust"]) ]

\* One field of the LLDBConfig struct expression: a lookup, unwrapped.  After
\* the last field the record is constructed and `status` is initialised.
GetField ==
  /\ pc = "config"
  /\ \E r \in KeyStates :
       LET key == ConfigOrder[field] IN
         /\ settings' = [settings EXCEPT ![key] = r]
         /\ IF Fatal(key, r)
              THEN /\ Panic("config")
                   /\ UNCHANGED << field, config >>
              ELSE IF field = Len(ConfigOrder)
                THEN /\ config' = << MakeConfig(settings') >>
                     /\ pc' = "loop"
                     /\ UNCHANGED << field, exit, panicSite >>
                ELSE /\ field' = field + 1
                     /\ UNCHANGED << pc, config, exit, panicSite >>
  /\ UNCHANGED << dir, listing, src_paths, i, result,
                  path_string, status, out, calls, results >>

\* The for loop has no element left to take.
LoopExhaustedEarly(n, paths) == n + 1 >= Len(paths)

LoopExhausted(n, paths) == n = Len(paths)

\* A variant that derives the file name before it runs the test.
NextInputNameFirst ==
  /\ pc = "loop"
  /\ ~LoopExhausted(i, src_paths)
  /\ i' = i + 1
  /\ IF Utf8(src_paths[i + 1])
       THEN /\ calls' = Append(calls, src_paths[i + 1])
            /\ pc' = "running"
            /\ UNCHANGED << exit, panicSite >>
       ELSE /\ Panic("file_name")
            /\ UNCHANGED calls
  /\ UNCHANGED << settings, dir, listing, src_paths, field, config, result,
                  path_string, status, out, results >>

\* for path in src_paths { ... let result = test_runner.run(): the loop takes
\* the next path, builds the LLDBTestRunner and enters run().
NextInput ==
  /\ pc = "loop"
  /\ ~LoopExhausted(i, src_paths)
  /\ i' = i + 1
  /\ calls' = Append(calls, src_paths[i + 1])
  /\ pc' = "running"
  /\ UNCHANGED << settings, dir, listing, src_paths, field, config, result,
                  path_string, status, out, results, exit, panicSite >>

\* test_runner.run() returns Ok(()) or Err(e).
BackendReturn ==
  /\ pc = "running"
  /\ \E r \in Outcomes :
       /\ result' = << r >>
       /\ results' = Append(results, r)
  /\ pc' = "file_name"
  /\ UNCHANGED << settings, dir, listing, src_paths, field, config, i,
                  path_string, status, out, calls, exit, panicSite >>

\* let path_string = path.file_name().unwrap().to_str().unwrap();
FileName ==
  /\ pc = "file_name"
  /\ IF Utf8(src_paths[i])
       THEN /\ path_string' = << src_paths[i] >>
            /\ pc' = "report"
            /\ UNCHANGED << exit, panicSite >>
       ELSE /\ Panic("file_name")
            /\ UNCHANGED path_string
  /\ UNCHANGED << settings, dir, listing, src_paths, field, config, i, result,
                  status, out, calls, results >>

Line(kind, text) == [kind |-> kind, text |-> text]

\* The println!s of the match: one status line, and the error after "failed".
LinesNoDiag(name, r) ==
  IF r.tag = "Ok"
    THEN << Line("passed", name) >>
    ELSE << Line("failed", name) >>

Lines(name, r) ==
  IF r.tag = "Ok"
    THEN << Line("passed", name) >>
    ELSE << Line("failed", name), Line("diag", r.e) >>

\* Only the Err arm assigns status.
FoldLast(st, r) == IF r.tag = "Err" THEN "Err" ELSE "Ok"

Fold(st, r) == IF r.tag = "Err" THEN "Err" ELSE st

\* A variant that leaves the loop at the first failure.
ReportBreak ==
  /\ pc = "report"
  /\ out' = out \o Lines(path_string[1], result[1])
  /\ status' = Fold(status, result[1])
  /\ i' = IF result[1].tag = "Err" THEN Len(src_paths) ELSE i
  /\ result' = << >>
  /\ path_string' = << >>
  /\ pc' = "loop"
  /\ UNCHANGED << settings, dir, listing, src_paths, field, config,
                  calls, results, exit, panicSite >>

\* match result { Ok(_) => ..., Err(e) => ... }, then the next iteration.
Report ==
  /\ pc = "report"
  /\ out' = out \o Lines(path_string[1], result[1])
  /\ status' = Fold(status, result[1])
  /\ result' = << >>
  /\ path_string' = << >>
  /\ pc' = "loop"
  /\ UNCHANGED << settings, dir, listing, src_paths, field, config, i,
                  calls, results, exit, panicSite >>

\* main returns `status`: Ok(()) is exit code 0, Err(()) a failure exit code.
ExitAlwaysSuccess(st) == "success"

ExitOf(st) == IF st = "Ok" THEN "success" ELSE "failure"

Return ==
  /\ pc = "loop"
  /\ LoopExhausted(i, src_paths)
  /\ exit' = ExitOf(status)
  /\ pc' = "done"
  /\ UNCHANGED << settings, dir, listing, src_paths, field, config, i, result,
                  path_string, status, out, calls, results, panicSite >>

Next ==
  \/ Merge
  \/ GetTestDir
  \/ ReadDir
  \/ ReadEntry
  \/ EndOfListing
  \/ GetField
  \/ NextInput
  \/ BackendReturn
  \/ FileName
  \/ Report
  \/ Return

Spec == Init /\ [][Next]_vars

\* The process is scheduled until it ends, and a call of run() returns.
FairSpec == Spec /\ WF_vars(Next)

(***************************************************************************)
(* Properties                                                              *)
(***************************************************************************)

IsStatusLine(l) == l.kind # "diag"

\* The status lines of the output, diagnostics left out.
StatusLines == SelectSeq(out, IsStatusLine)

NumReported == Len(StatusLines)

StatusNames == [j \in 1..NumReported |-> StatusLines[j].text]

ListingNames == [j \in 1..Len(listing) |-> listing[j].name]

IsPrefix(s, t) == Len(s) <= Len(t) /\ \A j \in 1..Len(s) : s[j] = t[j]

\* The test (its index in the run) that the output line j belongs to.
TestOf(j) == Len(SelectSeq(SubSeq(out, 1, j), IsStatusLine))

FailedAt(k) == k <= Len(results) /\ results[k].tag = "Err"

SomeFailed == \E k \in 1..Len(results) : FailedAt(k)

DiscoveryFailed == dir = "err" \/ \E j \in 1..Len(listing) : ~listing[j].ok

LookupFailed(key) == settings[key] \in {"absent", "badtype"}

RecordKeys == {ConfigOrder[j] : j \in 1..Len(ConfigOrder)} \ {"lldb_python"}

\* C1: when main returns, one outcome was produced per listed input and the
\* process exits successfully exactly if every backend outcome is Passed; a
\* Failed outcome at any position makes it a failure, no input a success.
C1_AggregateIff ==
  pc = "done" =>
    /\ Len(results) = Len(listing)
    /\ exit \in {"success", "failure"}
    /\ exit = "success" <=> \A k \in 1..Len(results) : results[k].tag = "Ok"

\* Scenario B: three inputs, the middle one fails, the run is a failure.
C1_Witness ==
  /\ pc = "done"
  /\ Len(results) = 3
  /\ results[1].tag = "Ok" /\ results[2].tag = "Err" /\ results[3].tag = "Ok"
  /\ exit = "failure"

AfterFailureAllReported(k) ==
  \A j \in (k + 1)..Len(src_paths) : j <= Len(calls) /\ j <= NumReported

\* C2, as claimed: once the backend has returned Failed for test k, every
\* test k+1..N is eventually run and gets its status line.
C2_Original ==
  \A k \in 1..MaxFiles : FailedAt(k) ~> AfterFailureAllReported(k)

\* C2, amended: once the backend has returned Failed for test k, and the
\* file names of the inputs k..N can be derived, every test k+1..N is
\* eventually run and gets its status line; and reporting a failure always
\* leads back to the head of the loop with no input skipped.
C2_ContinueOnError ==
  /\ \A k \in 1..MaxFiles :
       (FailedAt(k) /\ \A j \in k..Len(src_paths) : Utf8(src_paths[j]))
         ~> AfterFailureAllReported(k)
  /\ [][(pc = "report" /\ result[1].tag = "Err") => (pc' = "loop" /\ i' = i)]_vars

\* The first of three tests failed and all three were run and reported.
C2_Witness ==
  /\ pc = "done"
  /\ Len(calls) = 3
  /\ FailedAt(1)
  /\ NumReported = 3

\* C3, as claimed: a run that reached the loop ends with exactly one status
\* line per listed input, the i-th naming the i-th input of the listing.
C3_Original ==
  (exit # "running" /\ Len(config) = 1) => StatusNames = ListingNames

\* C3, amended: a run in which main returns printed exactly one status line
\* per listed input, the i-th naming the i-th input of the listing; at every
\* point of every run the status lines printed so far name the first inputs
\* of the listing in its order; a run that panics on a file name has printed
\* the status lines of the inputs before that one only.
C3_StatusLinesInOrder ==
  /\ pc = "done" => StatusNames = ListingNames
  /\ IsPrefix(StatusNames, ListingNames)
  /\ panicSite = "file_name" => NumReported = i - 1

\* Three inputs, a failure among them (so a diagnostic line is in the output).
C3_Witness ==
  /\ pc = "done"
  /\ Len(listing) = 3
  /\ SomeFailed
  /\ NumReported = 3
  /\ Len(out) > 3

\* C4: when read_dir fails, or any entry of the listing is an error, the
\* backend is never invoked, nothing is printed and the process ends
\* unsuccessfully.
C4_DiscoveryFatal ==
  DiscoveryFailed =>
    /\ calls = << >>
    /\ results = << >>
    /\ out = << >>
    /\ exit = "panic"

\* The third and last entry of the listing is the one that is an error.
C4_Witness ==
  /\ Len(listing) = 3
  /\ listing[1].ok /\ listing[2].ok /\ ~listing[3].ok
  /\ exit = "panic"

\* C5, as claimed: a run in which a required setting (test_dir or a required
\* field of the record) is missing or malformed never lists the directory.
C5_Original ==
  (\E key \in Keys \ {"lldb_python"} : LookupFailed(key)) => dir = "unlisted"

\* C5, amended: a Settings file that cannot be loaded, or a missing or
\* malformed test_dir, aborts the run before the directory is listed; a
\* missing or malformed required field of the record aborts it after the
\* directory was listed and collected, and before any test is run.
C5_ConfigErrorOrder ==
  /\ panicSite \in {"merge", "test_dir"} => dir = "unlisted"
  /\ LookupFailed("test_dir") => (dir = "unlisted" /\ exit = "panic")
  /\ (\E key \in RecordKeys : LookupFailed(key)) =>
       /\ dir = "open"
       /\ src_paths = ListingNames
       /\ panicSite = "config"
       /\ exit = "panic"
       /\ calls = << >>
       /\ out = << >>

\* A required field is missing after a directory of two inputs was listed.
C5_Witness ==
  /\ panicSite = "config"
  /\ LookupFailed("lldb_lookup")
  /\ dir = "open"
  /\ Len(src_paths) = 2

\* C6, as claimed: after a failed lookup, other than that of lldb_python
\* with the key absent, the backend is never invoked and main never returns.
C6_Original ==
  \A key \in Keys :
    (LookupFailed(key) /\ ~(key = "lldb_python" /\ settings[key] = "absent"))
      => (calls = << >> /\ pc # "done")

\* C6, amended: a failed lookup of any key but lldb_python is fatal before
\* any backend invocation; a failed lookup of lldb_python, the key absent or
\* its value of the wrong type, is never fatal and leaves the field empty.
C6_OptionalKey ==
  /\ \A key \in Keys \ {"lldb_python"} :
       LookupFailed(key) => (exit = "panic" /\ calls = << >>)
  /\ panicSite = "config" => \E key \in RecordKeys : LookupFailed(key)
  /\ Len(config) = 1 =>
       /\ LookupFailed("lldb_python") <=> config[1].lldb_python = ""
       /\ \A key \in Keys : settings[key] # "unread"
       /\ config[1].lldb_lookup # "" /\ config[1].pretty_printers_path # ""

\* lldb_python holds a value of the wrong type and a test is run all the same.
C6_Witness ==
  /\ settings["lldb_python"] = "badtype"
  /\ Len(config) = 1
  /\ config[1].lldb_python = ""
  /\ Len(calls) >= 1

\* C7: every "failed" line is directly followed by one diagnostic line, which
\* carries the error the backend returned for that test; a "passed" line is
\* not followed by a diagnostic; a diagnostic directly follows a "failed"
\* line; a status line reports the result of the test it names.
C7_FailedThenDiagnostic ==
  \A j \in 1..Len(out) :
    /\ out[j].kind = "failed" =>
         /\ j < Len(out)
         /\ out[j + 1].kind = "diag"
         /\ results[TestOf(j)].tag = "Err"
         /\ out[j + 1].text = results[TestOf(j)].e
         /\ out[j].text = calls[TestOf(j)]
    /\ out[j].kind = "passed" =>
         /\ j < Len(out) => out[j + 1].kind # "diag"
         /\ results[TestOf(j)].tag = "Ok"
         /\ out[j].text = calls[TestOf(j)]
    /\ out[j].kind = "diag" => (j > 1 /\ out[j - 1].kind = "failed")

\* Two failures with different diagnostics, then a passed line.
C7_Witness ==
  /\ Len(out) = 5
  /\ out[1].kind = "failed" /\ out[3].kind = "failed" /\ out[5].kind = "passed"
  /\ out[2].kind = "diag" /\ out[4].kind = "diag"
  /\ out[2].text # out[4].text

\* C8: at most one call of run() is in progress; a call starts only when
\* every earlier call has returned and its status line is printed; when main
\* returns, run() was called exactly once for each collected input, in order.
C8_SequentialExactlyOnce ==
  /\ [](Len(results) <= Len(calls) /\ Len(calls) <= Len(results) + 1)
  /\ [](pc = "done" => (calls = src_paths /\ calls = ListingNames
                         /\ Len(results) = Len(calls)))
  /\ [][Len(calls') > Len(calls) =>
          /\ Len(calls') = Len(calls) + 1
          /\ Len(results) = Len(calls)
          /\ NumReported = Len(calls)]_vars

\* The third call is in progress, the first two returned and are reported.
C8_Witness ==
  /\ pc = "running"
  /\ Len(calls) = 3
  /\ Len(results) = 2
  /\ NumReported = 2
  /\ SomeFailed

\* C9: the flag starts Ok; at every point it is Err exactly if one of the
\* outcomes reported so far was Failed; once Err it stays Err; main returns
\* the flag.
C9_FlagMonotone ==
  /\ [](status = "Err" <=> \E k \in 1..NumReported : FailedAt(k))
  /\ [][status = "Err" => status' = "Err"]_vars
  /\ [](pc = "done" => (exit = "success" <=> status = "Ok"))

\* A failure was followed by a Passed outcome and the flag is still Err.
C9_Witness ==
  /\ pc = "loop"
  /\ NumReported = 2
  /\ results[1].tag = "Err" /\ results[2].tag = "Ok"
  /\ status = "Err"

\* C10: a run that panics on the file name of input k has called run() k
\* times, the k-th time for input k, has printed k-1 status lines, ends
\* unsuccessfully and calls run() and prints no more; main does not return
\* when a collected input has a file name that cannot be derived.
C10_NameAfterRun ==
  /\ [](panicSite = "file_name" =>
          /\ i >= 1
          /\ ~Utf8(src_paths[i])
          /\ Len(calls) = i /\ calls[i] = src_paths[i]
          /\ Len(results) = i
          /\ NumReported = i - 1
          /\ exit = "panic")
  /\ [][panicSite = "file_name" => (calls' = calls /\ out' = out)]_vars
  /\ [](pc = "done" => \A j \in 1..Len(src_paths) : Utf8(src_paths[j]))

\* The second of three inputs has the name that cannot be derived.
C10_Witness ==
  /\ panicSite = "file_name"
  /\ i = 2
  /\ Len(src_paths) = 3
  /\ Len(calls) = 2
  /\ NumReported = 1

====
